---------------------------- MODULE Spec2Model ----------------------------
(***************************************************************************)
(* Model of eventapp.py: the scoring engine (lines 55-96) and the budget   *)
(* optimizer of the "Recommended Events" tab (lines 181-218).              *)
(*                                                                         *)
(* One run of the script is a sequence of steps (pc); the script is run    *)
(* again from the top after every widget interaction.  The only state that *)
(* survives a run is the cached data frame df and the widget values.       *)
(*                                                                         *)
(* Numbers.  pandas/Python floats are modelled as exact fractions <<n,d>>  *)
(* with d > 0 in lowest terms, extended with the IEEE-754 special values   *)
(* the code can produce by dividing by zero:                               *)
(*     <<1,0>> = +inf      <<-1,0>> = -inf      <<0,0>> = NaN              *)
(* Binary rounding error of the floats is not modelled; the special values *)
(* and their propagation are.                                              *)
(***************************************************************************)
EXTENDS Integers, Sequences, FiniteSets, TLC

VARIABLES df, filtered_df, cost_adjustment, budget, weights, pc, status,
          budget_df, costs, values, i, w, selected_indices, recommended_df

vars == <<df, filtered_df, cost_adjustment, budget, weights, pc, status,
          budget_df, costs, values, i, w, selected_indices, recommended_df>>

----------------------------------------------------------------------------
(* Float arithmetic *)

NaN == <<0, 0>>
PosInf == <<1, 0>>
NegInf == <<-1, 0>>
Zero == <<0, 1>>
One == <<1, 1>>

Abs(x) == IF x < 0 THEN -x ELSE x

Sgn(x) == IF x > 0 THEN 1 ELSE IF x < 0 THEN -1 ELSE 0

RECURSIVE GCD(_, _)
GCD(a, b) == IF b = 0 THEN a ELSE GCD(b, a % b)

\* n/d with d >= 0 brought to the canonical form; d = 0 gives inf, -inf or NaN.
Norm(n, d) ==
    IF d = 0 THEN <<Sgn(n), 0>>
    ELSE LET g == GCD(Abs(n), d) IN <<n \div g, d \div g>>

FromInt(n) == <<n, 1>>

IsNaN(x) == x = NaN

IsFinite(x) == x[2] # 0

IsInf(x) == x[2] = 0 /\ x[1] # 0

Neg(x) == <<-x[1], x[2]>>

\* (n1/d1) * (n2/d2) with d1, d2 >= 0, cancelling before multiplying.
Times(n1, d1, n2, d2) ==
    LET g1 == GCD(Abs(n1), d2)
        g2 == GCD(Abs(n2), d1)
        h1 == IF g1 = 0 THEN 1 ELSE g1
        h2 == IF g2 = 0 THEN 1 ELSE g2
    IN Norm((n1 \div h1) * (n2 \div h2), (d1 \div h2) * (d2 \div h1))

Mul(a, b) == Times(a[1], a[2], b[1], b[2])

Div(a, b) ==
    IF b[1] < 0 THEN Times(a[1], a[2], -b[2], -b[1])
    ELSE Times(a[1], a[2], b[2], b[1])

Add(a, b) ==
    IF IsNaN(a) \/ IsNaN(b) THEN NaN
    ELSE IF IsInf(a) /\ IsInf(b) THEN (IF a = b THEN a ELSE NaN)
    ELSE IF IsInf(a) THEN a
    ELSE IF IsInf(b) THEN b
    ELSE LET g == GCD(a[2], b[2])
         IN Norm(a[1] * (b[2] \div g) + b[1] * (a[2] \div g),
                 a[2] * (b[2] \div g))

Sub(a, b) == Add(a, Neg(b))

\* IEEE comparisons: every ordered comparison with NaN is false, != is true.
Lt(a, b) ==
    /\ ~IsNaN(a)
    /\ ~IsNaN(b)
    /\ IF IsInf(a) /\ IsInf(b) THEN a[1] < b[1]
       ELSE IF IsInf(a) THEN a[1] < 0
       ELSE IF IsInf(b) THEN b[1] > 0
       ELSE LET g == GCD(a[2], b[2])
            IN a[1] * (b[2] \div g) < b[1] * (a[2] \div g)

Gt(a, b) == Lt(b, a)

Eq(a, b) == ~IsNaN(a) /\ ~IsNaN(b) /\ a = b

Le(a, b) == Lt(a, b) \/ Eq(a, b)

Ge(a, b) == Le(b, a)

Ne(a, b) == ~Eq(a, b)

\* int(x) of a finite float: truncation toward zero.
Trunc(x) ==
    IF x[1] >= 0 THEN x[1] \div x[2] ELSE -((-x[1]) \div x[2])

\* Series.round(2): to the nearest multiple of 1/100, halves to the even one.
Round2(x) ==
    IF ~IsFinite(x) THEN x
    ELSE LET n == x[1] * 100
             q == n \div x[2]
             r == n - q * x[2]
             up == \/ 2 * r > x[2]
                   \/ (2 * r = x[2] /\ q % 2 = 1)
         IN Norm(IF up THEN q + 1 ELSE q, 100)


----------------------------------------------------------------------------
(* Bounds of the exploration and the data the runs are fed with *)

\* Rows of the events.csv that is loaded.
MaxEvents == 4

\* Budgets 0..MaxBudget are tried, next to the widget's default and 25000.
MaxBudget == 3

\* value= of the "Total Marketing Budget ($)" widget.
DefaultBudget == 50000

RawColumns ==
    {"Event", "Month", "Season", "Category", "Free_or_Ticketed", "Demographic",
     "Attendance", "Publicity_Score", "PrideFactor", "Media_Coverage_Score",
     "Estimated_Sponsorship_Cost"}

Row(name, season, category, demo, att, pub, pride, media, cost) ==
    [Event |-> name, Month |-> "June", Season |-> season, Category |-> category,
     Free_or_Ticketed |-> "Free", Demographic |-> demo, Attendance |-> att,
     Publicity_Score |-> pub, PrideFactor |-> pride,
     Media_Coverage_Score |-> media, Estimated_Sponsorship_Cost |-> cost]

\* Small costs, so that the multiplier 1/2 gives fractional adjusted costs;
\* the second and third event differ in name and category only.
CatalogSmall ==
    << Row("Taste", "Winter", "Food", "Tourists", 1, 2, 10, 1, 1),
       Row("Blues", "Summer", "Music", "Families", 2, 1, 5, 1, 3),
       Row("Jazz", "Summer", "Arts", "Families", 2, 1, 5, 1, 3),
       Row("Marathon", "Winter", "Sports", "Young Adults", 3, 1, 1, 2, 2),
       Row("Expo", "Summer", "Tech", "Sports Fans", 2, 3, 4, 2, 2) >>

\* Degenerate rows: zero attendance, zero scores, zero sponsorship cost.
CatalogZero ==
    << Row("Vigil", "Winter", "Food", "Sports Fans", 0, 5, 5, 5, 2),
       Row("Popup", "Summer", "Music", "General Public", 0, 0, 0, 0, 0),
       Row("Parade", "Summer", "Arts", "Cultural Communities", 4, 1, 2, 1, 0),
       Row("Rally", "Winter", "Sports", "Families", 0, 3, 3, 3, 1),
       Row("Fair", "Summer", "Tech", "Young Adults", 5, 2, 2, 2, 2) >>

\* With only the pride weight set, the combined scores of A, B, C are
\* 0.9, 0.5 and 0.7 at costs 10000, 20000 and 15000.
CatalogLarge ==
    << Row("A", "Winter", "Food", "Families", 8000, 1, 10, 1, 10000),
       Row("B", "Summer", "Music", "Families", 10000, 1, 5, 1, 20000),
       Row("C", "Summer", "Arts", "Families", 15000, 1, 4, 1, 15000),
       Row("D", "Winter", "Sports", "Families", 1000, 1, 1, 1, 30000),
       Row("E", "Summer", "Tech", "Tourists", 2000, 2, 3, 1, 5000) >>

Head_(s, n) == SubSeq(s, 1, IF n < Len(s) THEN n ELSE Len(s))

Datasets ==
    {Head_(CatalogSmall, MaxEvents), Head_(CatalogZero, MaxEvents),
     Head_(CatalogLarge, MaxEvents)}

Multipliers == {Norm(1, 2), One, FromInt(2)}

Budgets == (0 .. MaxBudget) \cup {25000, DefaultBudget}

Weights(a, p, pr, m, c, d) ==
    [attendance_w |-> a, publicity_w |-> p, pride_w |-> pr, media_w |-> m,
     cost_w |-> c, demo_w |-> d]

\* The sliders' default values.
DefaultWeights ==
    Weights(Norm(3, 10), Norm(2, 10), Norm(2, 10), Norm(2, 10), Norm(1, 10),
            Norm(1, 10))

WeightConfigs ==
    {DefaultWeights,
     Weights(Zero, Zero, Zero, Zero, Zero, Zero),
     Weights(Zero, Zero, Zero, Zero, One, Zero),
     Weights(Zero, Zero, One, Zero, Zero, Zero)}

----------------------------------------------------------------------------
(* Data-frame operations *)

Indices(rows) == 1 .. Len(rows)

\* frame[name] of a derived (float) column, and of a raw integer column.
Col(rows, name) == [k \in Indices(rows) |-> rows[k][name]]

RawCol(rows, name) == [k \in Indices(rows) |-> FromInt(rows[k][name])]

\* frame[name] = series: the column is added, or overwritten if present.
WithColumn(rows, name, series) ==
    [k \in Indices(rows) |-> (name :> series[k]) @@ rows[k]]

\* Series.max(): NaN entries are skipped; NaN if nothing is left.
SeriesMax(s) ==
    LET present == {s[k] : k \in DOMAIN s} \ {NaN}
    IN IF present = {} THEN NaN
       ELSE CHOOSE m \in present : \A v \in present : Le(v, m)

\* Variant: min-max scaling, (x - min) / (max - min).
DivByRange(s) ==
    LET lo == Neg(SeriesMax([k \in DOMAIN s |-> Neg(s[k])]))
    IN [k \in DOMAIN s |-> Div(Sub(s[k], lo), Sub(SeriesMax(s), lo))]

\* series / series.max()
DivByMax(s) == [k \in DOMAIN s |-> Div(s[k], SeriesMax(s))]

Options(rows, name) == {rows[k][name] : k \in Indices(rows)}

\* df[isin(...) & isin(...) & isin(...) & isin(...)]: a new frame.
FilterRows(rows, seasons, months, categories, tickets) ==
    LET Keep(r) == /\ r.Season \in seasons
                   /\ r.Month \in months
                   /\ r.Category \in categories
                   /\ r.Free_or_Ticketed \in tickets
    IN SelectSeq(rows, Keep)

AdjustedCostColumn(rows, multiplier) ==
    [k \in Indices(rows) |->
        Mul(FromInt(rows[k].Estimated_Sponsorship_Cost), multiplier)]

DemoScore(demographic) ==
    CASE demographic = "Families" -> One
      [] demographic = "Young Adults" -> Norm(9, 10)
      [] demographic = "Sports Fans" -> Norm(8, 10)
      [] demographic = "Cultural Communities" -> Norm(7, 10)
      [] demographic = "General Public" -> Norm(8, 10)
      [] OTHER -> Norm(6, 10)

DynamicFitScore(r, wts) ==
    LET Tenth(x) == Div(FromInt(x), FromInt(10))
        t1 == Mul(wts.attendance_w, r.NormAttendance)
        t2 == Mul(wts.publicity_w, Tenth(r.Publicity_Score))
        t3 == Mul(wts.pride_w, Tenth(r.PrideFactor))
        t4 == Mul(wts.media_w, Tenth(r.Media_Coverage_Score))
        t5 == Mul(wts.demo_w, r.DemoScore)
        t6 == Mul(wts.cost_w, r.NormCost)
    IN Sub(Add(Add(Add(Add(t1, t2), t3), t4), t5), t6)

ROI(r) ==
    Round2(Div(FromInt(r.Attendance * r.Publicity_Score * r.Media_Coverage_Score),
               r.AdjustedCost))

\* Lines 84-96 applied to a frame that has its AdjustedCost column.
Scored(rows, wts) ==
    LET f1 == WithColumn(rows, "NormAttendance", DivByMax(RawCol(rows, "Attendance")))
        f2 == WithColumn(f1, "NormCost", DivByMax(Col(f1, "AdjustedCost")))
        f3 == WithColumn(f2, "DemoScore",
                         [k \in Indices(f2) |-> DemoScore(f2[k].Demographic)])
        f4 == WithColumn(f3, "DynamicFitScore",
                         [k \in Indices(f3) |-> DynamicFitScore(f3[k], wts)])
    IN WithColumn(f4, "ROI", [k \in Indices(f4) |-> ROI(f4[k])])

\* filtered_df[filtered_df["AdjustedCost"] <= budget]
BudgetEligible(rows, b) ==
    LET Affordable(r) == Le(r.AdjustedCost, FromInt(b))
    IN SelectSeq(rows, Affordable)

\* Lines 190-192.
Renormalized(rows) ==
    LET f1 == WithColumn(rows, "NormFitScore", DivByMax(Col(rows, "DynamicFitScore")))
        f2 == WithColumn(f1, "NormROI", DivByMax(Col(f1, "ROI")))
    IN WithColumn(f2, "CombinedScore",
                  [k \in Indices(f2) |->
                      Div(Add(f2[k].NormFitScore, f2[k].NormROI), FromInt(2))])

----------------------------------------------------------------------------
(* Knapsack *)

\* Variant: 0 < costs[i-1] <= w, items of integer cost 0 are never taken.
FitsPositive(cost, cap) == 0 < cost /\ cost <= cap

\* costs[i-1] <= w
Fits(cost, cap) == cost <= cap

\* Python's max(a, b): b only if b > a, so a NaN second argument is dropped.
PyMax(a, b) == IF Gt(b, a) THEN b ELSE a

\* Variant: the value of the item is not added when it is taken.
RECURSIVE CellNoValue(_, _, _, _)
CellNoValue(cs, vs, k, c) ==
    IF k = 0 THEN Zero
    ELSE IF Fits(cs[k], c)
         THEN PyMax(CellNoValue(cs, vs, k - 1, c),
                    CellNoValue(cs, vs, k - 1, c - cs[k]))
         ELSE CellNoValue(cs, vs, k - 1, c)

\* The value the fill loop stores in dp[k][c], 0 <= c <= W.
RECURSIVE Cell(_, _, _, _)
Cell(cs, vs, k, c) ==
    IF k = 0 THEN Zero
    ELSE IF Fits(cs[k], c)
         THEN PyMax(Cell(cs, vs, k - 1, c),
                    Add(Cell(cs, vs, k - 1, c - cs[k]), vs[k]))
         ELSE Cell(cs, vs, k - 1, c)

\* The index list.__getitem__ reads for subscript c of a list of length
\* W + 1: negative subscripts count from the end; -1 stands for IndexError.
ListIndex(c, W) ==
    IF c >= 0 /\ c <= W THEN c
    ELSE IF c < 0 /\ c >= -(W + 1) THEN W + 1 + c
    ELSE -1

\* dp[k][c] as read by the backtrack of the current run.
dp(k, c) == Cell(costs, values, k, ListIndex(c, budget))

\* Variant: dp[i][w] >= dp[i-1][w].
DiffersOrEqual(a, b) == Ge(a, b)

\* dp[i][w] != dp[i-1][w]
Differs(a, b) == Ne(a, b)

\* sort_values(by="CombinedScore", ascending=False) of a short frame: rows
\* with equal scores keep their order.
RECURSIVE SortedDesc(_)
SortedDesc(rows) ==
    IF rows = <<>> THEN <<>>
    ELSE LET best == CHOOSE k \in Indices(rows) :
                        /\ \A j \in Indices(rows) :
                              ~Gt(rows[j].CombinedScore, rows[k].CombinedScore)
                        /\ \A j \in 1 .. (k - 1) :
                              Gt(rows[k].CombinedScore, rows[j].CombinedScore)
             rest == [j \in 1 .. (Len(rows) - 1) |->
                        IF j < best THEN rows[j] ELSE rows[j + 1]]
         IN <<rows[best]>> \o SortedDesc(rest)

----------------------------------------------------------------------------
(* The script, one action per block *)

Init ==
    /\ df \in Datasets
    /\ filtered_df = <<>>
    /\ cost_adjustment = One
    /\ budget = DefaultBudget
    /\ weights = DefaultWeights
    /\ pc = "start"
    /\ status = "running"
    /\ budget_df = <<>>
    /\ costs = <<>>
    /\ values = <<>>
    /\ i = 0
    /\ w = 0
    /\ selected_indices = <<>>
    /\ recommended_df = <<>>

\* Lines 15-60: a run starts with nothing but the cached frame and the
\* widget values; the four multiselects are read and the mask applied.
ApplyFilters ==
    /\ pc \in {"start", "done"}
    /\ \E seasons \in SUBSET Options(df, "Season"),
          months \in SUBSET Options(df, "Month"),
          categories \in SUBSET Options(df, "Category"),
          tickets \in SUBSET Options(df, "Free_or_Ticketed") :
          filtered_df' = FilterRows(df, seasons, months, categories, tickets)
    /\ pc' = "cost"
    /\ status' = "running"
    /\ budget_df' = <<>>
    /\ costs' = <<>>
    /\ values' = <<>>
    /\ i' = 0
    /\ w' = 0
    /\ selected_indices' = <<>>
    /\ recommended_df' = <<>>
    /\ UNCHANGED <<df, cost_adjustment, budget, weights>>

\* Variant: the AdjustedCost column is also written to the cached frame.
AdjustCostCached ==
    /\ pc = "cost"
    /\ \E m \in Multipliers, b \in Budgets :
          /\ cost_adjustment' = m
          /\ budget' = b
          /\ filtered_df' = WithColumn(filtered_df, "AdjustedCost",
                                       AdjustedCostColumn(filtered_df, m))
          /\ df' = WithColumn(df, "AdjustedCost", AdjustedCostColumn(df, m))
    /\ pc' = "weights"
    /\ UNCHANGED <<weights, status, budget_df, costs, values, i, w,
                   selected_indices, recommended_df>>

\* Lines 66-68.
AdjustCost ==
    /\ pc = "cost"
    /\ \E m \in Multipliers, b \in Budgets :
          /\ cost_adjustment' = m
          /\ budget' = b
          /\ filtered_df' = WithColumn(filtered_df, "AdjustedCost",
                                       AdjustedCostColumn(filtered_df, m))
    /\ pc' = "weights"
    /\ UNCHANGED <<df, weights, status, budget_df, costs, values, i, w,
                   selected_indices, recommended_df>>

\* Lines 74-79.
ReadWeights ==
    /\ pc = "weights"
    /\ weights' \in WeightConfigs
    /\ pc' = "score"
    /\ UNCHANGED <<df, filtered_df, cost_adjustment, budget, status, budget_df,
                   costs, values, i, w, selected_indices, recommended_df>>

\* Lines 84-96.
Score ==
    /\ pc = "score"
    /\ filtered_df' = Scored(filtered_df, weights)
    /\ pc' = "tab5"
    /\ UNCHANGED <<df, cost_adjustment, budget, weights, status, budget_df,
                   costs, values, i, w, selected_indices, recommended_df>>

\* Lines 183-188.
Tab5 ==
    /\ pc = "tab5"
    /\ IF filtered_df = <<>>
       THEN /\ status' = "no_events"
            /\ pc' = "done"
            /\ UNCHANGED budget_df
       ELSE /\ budget_df' = BudgetEligible(filtered_df, budget)
            /\ IF budget_df' = <<>>
               THEN status' = "no_fit" /\ pc' = "done"
               ELSE status' = status /\ pc' = "renorm"
    /\ UNCHANGED <<df, filtered_df, cost_adjustment, budget, weights, costs,
                   values, i, w, selected_indices, recommended_df>>

\* Lines 190-192.
Renormalize ==
    /\ pc = "renorm"
    /\ budget_df' = Renormalized(budget_df)
    /\ pc' = "knapsack"
    /\ UNCHANGED <<df, filtered_df, cost_adjustment, budget, weights, status,
                   costs, values, i, w, selected_indices, recommended_df>>

\* Lines 194-211: the cost and value vectors, the table (dp is Cell over
\* them) and the start of the backtrack.
BuildKnapsack ==
    /\ pc = "knapsack"
    /\ costs' = [k \in Indices(budget_df) |-> Trunc(budget_df[k].AdjustedCost)]
    /\ values' = Col(budget_df, "CombinedScore")
    /\ w' = budget
    /\ i' = Len(budget_df)
    /\ selected_indices' = <<>>
    /\ pc' = "backtrack"
    /\ UNCHANGED <<df, filtered_df, cost_adjustment, budget, weights, status,
                   budget_df, recommended_df>>

\* Lines 212-215, one iteration.
BacktrackStep ==
    /\ pc = "backtrack"
    /\ i > 0
    /\ IF ListIndex(w, budget) = -1
       THEN /\ status' = "crash"
            /\ pc' = "done"
            /\ UNCHANGED <<i, w, selected_indices>>
       ELSE /\ IF Differs(dp(i, w), dp(i - 1, w))
               THEN /\ selected_indices' = Append(selected_indices, i - 1)
                    /\ w' = w - costs[i]
               ELSE UNCHANGED <<selected_indices, w>>
            /\ i' = i - 1
            /\ UNCHANGED <<status, pc>>
    /\ UNCHANGED <<df, filtered_df, cost_adjustment, budget, weights, budget_df,
                   costs, values, recommended_df>>

\* Lines 217-218: sorting the frame built from an empty list raises
\* KeyError, it has no CombinedScore column.
Recommend ==
    /\ pc = "backtrack"
    /\ i = 0
    /\ IF selected_indices = <<>>
       THEN /\ status' = "crash"
            /\ UNCHANGED recommended_df
       ELSE /\ status' = "ok"
            /\ recommended_df' =
                  SortedDesc([k \in 1 .. Len(selected_indices) |->
                                 budget_df[selected_indices[k] + 1]])
    /\ pc' = "done"
    /\ UNCHANGED <<df, filtered_df, cost_adjustment, budget, weights, budget_df,
                   costs, values, i, w, selected_indices>>

Next ==
    \/ ApplyFilters
    \/ AdjustCost
    \/ ReadWeights
    \/ Score
    \/ Tab5
    \/ Renormalize
    \/ BuildKnapsack
    \/ BacktrackStep
    \/ Recommend

Spec == Init /\ [][Next]_vars

----------------------------------------------------------------------------
(* Vocabulary of the properties *)

\* filtered_df carries the columns of lines 67-96.
ScoredPhase == pc \in {"tab5", "renorm", "knapsack", "backtrack"} \/
               (pc = "done" /\ status # "running")

\* budget_df carries NormFitScore, NormROI and CombinedScore.
RenormPhase == pc \in {"knapsack", "backtrack"} \/
               (pc = "done" /\ status \in {"ok", "crash"})

\* costs and values are those of this run.
KnapsackBuilt == pc = "backtrack" \/ (pc = "done" /\ status \in {"ok", "crash"})

\* The backtrack loop has run to its end.
BacktrackDone == (pc = "backtrack" /\ i = 0) \/
                 (pc = "done" /\ status \in {"ok", "crash"})

\* 1-based positions in budget_df of the selected events.
Selected == {selected_indices[k] + 1 : k \in 1 .. Len(selected_indices)}

RECURSIVE SumOver(_, _)
SumOver(f, S) ==
    IF S = {} THEN Zero
    ELSE LET k == CHOOSE x \in S : TRUE
         IN Add(f[k], SumOver(f, S \ {k}))

RECURSIVE IntSumOver(_, _)
IntSumOver(f, S) ==
    IF S = {} THEN 0
    ELSE LET k == CHOOSE x \in S : TRUE
         IN f[k] + IntSumOver(f, S \ {k})

AllFinite(s) == \A k \in DOMAIN s : IsFinite(s[k])

\* Exhaustive search: the best total value of a subset whose integer costs fit.
BruteForceMax(cs, vs, W) ==
    LET feasible == {S \in SUBSET (DOMAIN cs) : IntSumOver(cs, S) <= W}
        totals == {SumOver(vs, S) : S \in feasible}
    IN CHOOSE m \in totals : \A t \in totals : Le(t, m)

AllEqual(s) == \A j, k \in DOMAIN s : s[j] = s[k]

----------------------------------------------------------------------------
(* Properties of the optimizer *)

\* C1 (as claimed): the adjusted costs (the AdjustedCost column) of the
\* selected events add up to at most the budget.
C1_AdjustedCostWithinBudget ==
    BacktrackDone =>
        Le(SumOver(Col(budget_df, "AdjustedCost"), Selected), FromInt(budget))

\* C2: when every combined score is finite, the values of the selected events
\* add up to the maximum over all subsets whose integer costs fit the budget;
\* for costs 10000, 20000, 15000, values 0.9, 0.5, 0.7 and budget 25000 the
\* selection is the first and the third event, cost 25000, value 1.6.
C2_Optimal ==
    (BacktrackDone /\ AllFinite(values)) =>
        /\ SumOver(values, Selected) = BruteForceMax(costs, values, budget)
        /\ IntSumOver(costs, Selected) <= budget
        /\ (/\ costs = <<10000, 20000, 15000>>
            /\ values = <<Norm(9, 10), Norm(1, 2), Norm(7, 10)>>
            /\ budget = 25000)
           => /\ Selected = {1, 3}
              /\ IntSumOver(costs, Selected) = 25000
              /\ SumOver(values, Selected) = Norm(16, 10)

C2_Witness ==
    /\ pc = "done"
    /\ status = "ok"
    /\ costs = <<10000, 20000, 15000>>
    /\ values = <<Norm(9, 10), Norm(1, 2), Norm(7, 10)>>
    /\ budget = 25000
    /\ {recommended_df[k].Event : k \in Indices(recommended_df)} = {"A", "C"}

\* C8: the backtrack starts at item n with w the budget and goes down one item
\* per iteration; an iteration selects item i exactly when dp[i][w] differs
\* from dp[i-1][w], lowers w by the item's integer cost only then, never
\* below zero, and leaves out an item whose inclusion only ties.
C8_Backtrace ==
    [][(pc = "backtrack" /\ i > 0) =>
         LET differs == Ne(Cell(costs, values, i, w), Cell(costs, values, i - 1, w))
             tie == /\ costs[i] <= w
                    /\ Eq(Cell(costs, values, i - 1, w),
                          Add(Cell(costs, values, i - 1, w - costs[i]), values[i]))
         IN /\ w >= 0 /\ w <= budget
            /\ i = Len(costs) => (w = budget /\ selected_indices = <<>>)
            /\ pc' = "backtrack"
            /\ i' = i - 1
            /\ differs => (/\ selected_indices' = Append(selected_indices, i - 1)
                           /\ w' = w - costs[i]
                           /\ w' >= 0)
            /\ ~differs => (selected_indices' = selected_indices /\ w' = w)
            /\ tie => selected_indices' = selected_indices]_vars

\* An item with a positive value that ties was examined and left out, after
\* an item above it was examined.
C8_Witness ==
    /\ pc = "backtrack"
    /\ i < Len(costs)
    /\ i \notin Selected \cup {0}
    /\ Gt(values[i + 1], Zero)
    /\ costs[i + 1] <= w
    /\ Eq(Cell(costs, values, i, w),
          Add(Cell(costs, values, i, w - costs[i + 1]), values[i + 1]))

\* C9: when every combined score is finite, every eligible event whose integer
\* cost is 0 and whose combined score is positive is selected.
C9_ZeroCostIncluded ==
    (BacktrackDone /\ AllFinite(values)) =>
        \A k \in DOMAIN costs :
            (costs[k] = 0 /\ Gt(values[k], Zero)) => k \in Selected

\* An event costing half a currency unit is selected next to two others.
C9_Witness ==
    /\ BacktrackDone
    /\ AllFinite(values)
    /\ Cardinality(Selected) >= 3
    /\ \E k \in Selected :
          /\ costs[k] = 0
          /\ Gt(budget_df[k].AdjustedCost, Zero)
          /\ Gt(values[k], Zero)

----------------------------------------------------------------------------
(* Properties of the boundaries and of the normalizations *)

\* C3 (as claimed): a run over a non-empty filtered set in which no event is
\* affordable, or whose budget is 0, ends with the "no events fit" warning,
\* nothing selected and no knapsack built; a run over an empty filtered set
\* ends with the "no events available" warning.
C3_NoFitStatus ==
    pc = "done" =>
        /\ filtered_df = <<>> => status = "no_events"
        /\ (/\ filtered_df # <<>>
            /\ \/ budget = 0
               \/ \A k \in Indices(filtered_df) :
                     ~Le(filtered_df[k].AdjustedCost, FromInt(budget)))
           => /\ status = "no_fit"
              /\ selected_indices = <<>>
              /\ costs = <<>>

\* C4 (as claimed): where the maximum of a normalized field is zero, every
\* normalized value of that field is zero.
C4_ZeroMaxGivesZero ==
    /\ (ScoredPhase /\ Eq(SeriesMax(RawCol(filtered_df, "Attendance")), Zero))
          => \A k \in Indices(filtered_df) : filtered_df[k].NormAttendance = Zero
    /\ (ScoredPhase /\ Eq(SeriesMax(Col(filtered_df, "AdjustedCost")), Zero))
          => \A k \in Indices(filtered_df) : filtered_df[k].NormCost = Zero
    /\ (RenormPhase /\ Eq(SeriesMax(Col(budget_df, "DynamicFitScore")), Zero))
          => \A k \in Indices(budget_df) : budget_df[k].NormFitScore = Zero
    /\ (RenormPhase /\ Eq(SeriesMax(Col(budget_df, "ROI")), Zero))
          => \A k \in Indices(budget_df) : budget_df[k].NormROI = Zero

\* C5 (as claimed): when an eligible event has adjusted cost 0, the maximum
\* that NormROI divides by is finite and no infinite or NaN NormROI or
\* combined score is in the value vector of the knapsack.
C5_RoiGuard ==
    (KnapsackBuilt /\ \E k \in Indices(budget_df) : budget_df[k].AdjustedCost = Zero)
        => /\ IsFinite(SeriesMax(Col(budget_df, "ROI")))
           /\ \A k \in Indices(budget_df) :
                 IsFinite(budget_df[k].NormROI) /\ IsFinite(values[k])

C10_OrderPreserved ==
    RenormPhase =>
        \A x, y \in Indices(budget_df) :
            Gt(budget_df[x].DynamicFitScore, budget_df[y].DynamicFitScore)
               => Ge(budget_df[x].NormFitScore, budget_df[y].NormFitScore)

----------------------------------------------------------------------------
(* Determinism *)

RawPart(rows) == [k \in Indices(rows) |-> [c \in RawColumns |-> rows[k][c]]]

RECURSIVE Backtrack(_, _, _, _, _)
Backtrack(cs, vs, k, c, sel) ==
    IF k = 0 THEN sel
    ELSE IF Ne(Cell(cs, vs, k, c), Cell(cs, vs, k - 1, c))
         THEN Backtrack(cs, vs, k - 1, c - cs[k], Append(sel, k - 1))
         ELSE Backtrack(cs, vs, k - 1, c, sel)

\* The outcome of the script on raw rows and widget values alone.
FreshRun(raw, m, wts, b) ==
    LET scored == Scored(WithColumn(raw, "AdjustedCost", AdjustedCostColumn(raw, m)),
                         wts)
        eligible == BudgetEligible(scored, b)
        renorm == Renormalized(eligible)
        cs == [k \in Indices(renorm) |-> Trunc(renorm[k].AdjustedCost)]
        vs == Col(renorm, "CombinedScore")
        sel == Backtrack(cs, vs, Len(renorm), b, <<>>)
        chosen == [k \in 1 .. Len(sel) |-> renorm[sel[k] + 1]]
    IN IF raw = <<>>
       THEN [filtered |-> scored, status |-> "no_events", eligible |-> <<>>,
             selected |-> <<>>, recommended |-> <<>>]
       ELSE IF eligible = <<>>
       THEN [filtered |-> scored, status |-> "no_fit", eligible |-> <<>>,
             selected |-> <<>>, recommended |-> <<>>]
       ELSE IF sel = <<>>
       THEN [filtered |-> scored, status |-> "crash", eligible |-> renorm,
             selected |-> <<>>, recommended |-> <<>>]
       ELSE [filtered |-> scored, status |-> "ok", eligible |-> renorm,
             selected |-> sel, recommended |-> SortedDesc(chosen)]

\* C6: the cached frame never holds a derived column, the filtered rows are
\* rows of it, and what a finished run leaves (scored frame, status, eligible
\* frame, selection, recommendation) is what the script computes from the
\* filtered raw rows, the weights, the multiplier and the budget alone.
C6_HistoryIndependent ==
    /\ \A k \in Indices(df) : DOMAIN df[k] = RawColumns
    /\ pc # "start" =>
          \A k \in Indices(filtered_df) :
              \E j \in Indices(df) : RawPart(filtered_df)[k] = df[j]
    /\ pc = "done" =>
          LET fresh == FreshRun(RawPart(filtered_df), cost_adjustment, weights, budget)
          IN /\ filtered_df = fresh.filtered
             /\ status = fresh.status
             /\ budget_df = fresh.eligible
             /\ selected_indices = fresh.selected
             /\ recommended_df = fresh.recommended

\* A run with every widget moved off its initial value ended with a selection.
C6_Witness ==
    /\ pc = "done"
    /\ status = "ok"
    /\ cost_adjustment # One
    /\ budget # DefaultBudget
    /\ weights # DefaultWeights
    /\ Len(filtered_df) < Len(df)
    /\ Len(selected_indices) >= 2

=============================================================================
